---------------------------- MODULE Spec2Model ----------------------------
(***************************************************************************)
(* A model of package benchmarks (janpfeifer/go-benchmarks):               *)
(*   - Options, New and the With... setters, Options.Done and              *)
(*     Options.benchmarkOneFunc (src/unnamed/part_000);                    *)
(*   - PrettyPrint (src/prettyprint.go).                                   *)
(*                                                                         *)
(* Durations of the benchmark loop are time.Duration values (integers),    *)
(* counted in units of 250ms; those of PrettyPrint are in nanoseconds.     *)
(* A quantile is kept as its percentage pct (the code hands pct/100.0 to   *)
(* the estimator, the median is 50), a tolerance in thousandths (the       *)
(* default 0.001 is 1, the open interval (0,1) is 1..999).                 *)
(* A string is the sequence of its runes, each rune given by the number    *)
(* of bytes of its UTF-8 encoding: len(s) is the sum, the rune count is    *)
(* the length.                                                             *)
(***************************************************************************)
EXTENDS Integers, Sequences, FiniteSets, TLC

(* ------------------------------ bounds -------------------------------- *)

\* A collection window of the model starts at most MaxCalls timed calls.
MaxCalls == 3

\* The longest time that passes between time.NewTimer and the first select.
MaxStartupDelay == 1

\* A run sets at most MaxOptions of the options away from their defaults.
MaxOptions == 1

\* The elapsed times one timed call can take.
ElapsedChoices == {1, 3}

\* The arguments the With... setters are called with.
WarmUpChoices == {-1, 2}
InnerRepeatChoices == {0, 3}
DurationChoices == {-1, 0, 1}
ToleranceChoices == {0}
QuantileChoices == {<< >>, <<50>>, <<100, 100>>}

\* A name of n runes of w bytes each.
MkName(n, w) == [i \in 1..n |-> w]

\* The name lists New is called with.
NameLists == {<< >>, <<MkName(5, 3)>>, <<MkName(12, 2), MkName(3, 1)>>}

(* ------------------------------ helpers ------------------------------- *)

RECURSIVE SumSeq(_)
SumSeq(s) == IF s = << >> THEN 0 ELSE Head(s) + SumSeq(Tail(s))

MaxInt(a, b) == IF a >= b THEN a ELSE b

Range(s) == {s[i] : i \in 1..Len(s)}

\* strings.Repeat(" ", n)
Spaces(n) == [i \in 1..n |-> 1]

\* len(s): the number of bytes of s
ByteLen(s) == SumSeq(s)

\* A faulty variant of RuneCountInString that counts bytes.
RuneCountAsBytes(s) == SumSeq(s)

\* utf8.RuneCountInString(s)
RuneCountInString(s) == Len(s)

\* The literal "Benchmarks:" (11 ASCII runes).
HeaderLabel == [i \in 1..11 |-> 1]

(* --------------------------- program constants ------------------------ *)

\* New: warmUps: 5
DefaultWarmUps == 5
\* New: innerRepeats: 1
DefaultInnerRepeats == 1
\* New: duration: 1 * time.Second, in the model's unit of 250ms
DefaultDuration == 4
\* New: tolerance: 0.001, in thousandths
DefaultTolerance == 1
\* DefaultQuantiles = []int{5, 99}
DefaultQuantiles == <<5, 99>>

(* ------------------------------- state -------------------------------- *)

VARIABLES
    fns,            \* Options.fns: the names, in order
    quantiles,      \* Options.quantiles
    warmUps,        \* Options.warmUps
    innerRepeats,   \* Options.innerRepeats
    duration,       \* Options.duration
    tolerance,      \* Options.tolerance (thousandths)
    pc,             \* where Done is
    ii,             \* Done's loop index (1-based), 0 outside the loop
    warmed,         \* warm-up calls made for fns[ii]
    maxLen,         \* Done's maxLen
    runeCount,      \* Done's runeCount
    estimates,      \* the estimates handed to quantile.New
    added,          \* the values handed to estimator.Add, in order
    totalTime,      \* benchmarkOneFunc's totalTime
    count,          \* benchmarkOneFunc's count
    now,            \* wall clock, measured from time.NewTimer
    start,          \* benchmarkOneFunc's start
    fired,          \* timer.C holds a value
    firedAt,        \* the earliest instant the timer can have fired at
    lateCalls,      \* timed calls started after the timer fired
    calls,          \* elapsed times of the window's timed invocations
    r,              \* benchmarkOneFunc's result
    row,            \* the values of the row printed last
    out,            \* standard output: the first cell of each line
    trace,          \* the events of Done, in order
    failure,        \* the run-time panic Done ended with, or "none"
    ppIn,           \* PrettyPrint's argument d
    ppOut           \* PrettyPrint's return value, "" before the call

vars == <<fns, quantiles, warmUps, innerRepeats, duration, tolerance, pc, ii,
          warmed, maxLen, runeCount, estimates, added, totalTime, count, now,
          start, fired, firedAt, lateCalls, calls, r, row, out, trace, failure, ppIn, ppOut>>

config == <<fns, quantiles, warmUps, innerRepeats, duration, tolerance>>
layout == <<maxLen, runeCount>>
pp == <<ppIn, ppOut>>
window == <<estimates, added, totalTime, count, now, start, fired, firedAt,
            lateCalls, calls>>

NoResult == [mean |-> -1, median |-> -1, quantiles |-> << >>, count |-> -1]

(* New(fns...) *)
New(names) ==
    /\ fns = names
    /\ quantiles = DefaultQuantiles
    /\ warmUps = DefaultWarmUps
    /\ innerRepeats = DefaultInnerRepeats
    /\ duration = DefaultDuration
    /\ tolerance = DefaultTolerance
    /\ pc = "config"
    /\ ii = 0
    /\ warmed = 0
    /\ maxLen = 0
    /\ runeCount = << >>
    /\ estimates = << >>
    /\ added = << >>
    /\ totalTime = 0
    /\ count = 0
    /\ now = 0
    /\ start = 0
    /\ fired = FALSE
    /\ firedAt = -1
    /\ lateCalls = 0
    /\ calls = << >>
    /\ r = NoResult
    /\ row = NoResult
    /\ out = << >>
    /\ trace = << >>
    /\ failure = "none"

\* time.Duration d as d.s whole seconds and d.n nanoseconds, 0 <= d.n < Second
Dur(s, n) == [s |-> s, n |-> n]

Init ==
    /\ \E names \in NameLists : New(names)
    /\ ppIn = Dur(0, 0)
    /\ ppOut = ""

(* ------------------------------ setters ------------------------------- *)

\* The options that differ from what New gave them
ChangedOptions ==
    (IF quantiles # DefaultQuantiles THEN {"quantiles"} ELSE {})
        \cup (IF warmUps # DefaultWarmUps THEN {"warmUps"} ELSE {})
        \cup (IF innerRepeats # DefaultInnerRepeats THEN {"innerRepeats"} ELSE {})
        \cup (IF duration # DefaultDuration THEN {"duration"} ELSE {})
        \cup (IF tolerance # DefaultTolerance THEN {"tolerance"} ELSE {})

\* The run may still set option f
MaySet(f) == Cardinality(ChangedOptions \ {f}) < MaxOptions

WithQuantiles ==
    /\ pc = "config"
    /\ MaySet("quantiles")
    /\ \E qs \in QuantileChoices : quantiles' = qs
    /\ UNCHANGED <<fns, warmUps, innerRepeats, duration, tolerance, pc, ii,
                   warmed, layout, window, r, row, out, trace, failure, pp>>

WithWarmUps ==
    /\ pc = "config"
    /\ MaySet("warmUps")
    /\ \E w \in WarmUpChoices : warmUps' = w
    /\ UNCHANGED <<fns, quantiles, innerRepeats, duration, tolerance, pc, ii,
                   warmed, layout, window, r, row, out, trace, failure, pp>>

WithInnerRepeats ==
    /\ pc = "config"
    /\ MaySet("innerRepeats")
    /\ \E k \in InnerRepeatChoices : innerRepeats' = k
    /\ UNCHANGED <<fns, quantiles, warmUps, duration, tolerance, pc, ii,
                   warmed, layout, window, r, row, out, trace, failure, pp>>

WithDuration ==
    /\ pc = "config"
    /\ MaySet("duration")
    /\ \E d \in DurationChoices : duration' = d
    /\ UNCHANGED <<fns, quantiles, warmUps, innerRepeats, tolerance, pc, ii,
                   warmed, layout, window, r, row, out, trace, failure, pp>>

WithTolerance ==
    /\ pc = "config"
    /\ MaySet("tolerance")
    /\ \E t \in ToleranceChoices : tolerance' = t
    /\ UNCHANGED <<fns, quantiles, warmUps, innerRepeats, duration, pc, ii,
                   warmed, layout, window, r, row, out, trace, failure, pp>>

(* -------------------------------- Done -------------------------------- *)

RECURSIVE MaxRunes(_, _)
\* Done's first loop: maxLen = max(maxLen, runeCount[ii]) over the names
MaxRunes(names, m) ==
    IF names = << >> THEN m
    ELSE MaxRunes(Tail(names), MaxInt(m, RuneCountInString(Head(names))))

\* s + strings.Repeat(" ", extraSpaces) when extraSpaces > 0
Padded(s, extraSpaces) == IF extraSpaces > 0 THEN s \o Spaces(extraSpaces) ELSE s

\* The last column's label
CountLabel(k) == IF k > 1 THEN <<"Runs(x", k, ")">> ELSE <<"Count">>

\* The loop of Done moves to fns[i], or Done returns
Advance(i) ==
    IF i <= Len(fns)
    THEN /\ pc' = "warmup"
         /\ ii' = i
    ELSE /\ pc' = "done"
         /\ ii' = 0

(* Done up to its loop: the first column's width and the header line *)
DoneHeader ==
    /\ pc = "config"
    /\ LET m == MaxRunes(fns, ByteLen(HeaderLabel))
           header == Padded(HeaderLabel, m - ByteLen(HeaderLabel))
       IN /\ maxLen' = m
          /\ runeCount' = [i \in 1..Len(fns) |-> RuneCountInString(fns[i])]
          /\ out' = <<[kind |-> "header", first |-> header,
                       labels |-> << <<"Mean">>, <<"Median">> >>
                                  \o [i \in 1..Len(quantiles) |-> <<quantiles[i], "%-tile">>]
                                  \o <<CountLabel(innerRepeats)>>]>>
    /\ trace' = <<<<"header", 0>>>>
    /\ Advance(1)
    /\ warmed' = 0
    /\ UNCHANGED <<config, window, r, row, failure, pp>>

\* A faulty variant of WarmUpRuns that makes one call too many.
WarmUpRunsOneMore(n) == IF n > 0 THEN n + 1 ELSE 1

\* for _ = range n: the number of iterations
WarmUpRuns(n) == IF n > 0 THEN n ELSE 0

(* One warm-up call: namedFn.Func() *)
WarmUp ==
    /\ pc = "warmup"
    /\ warmed < WarmUpRuns(warmUps)
    /\ warmed' = warmed + 1
    /\ trace' = Append(trace, <<"warmup", ii>>)
    /\ UNCHANGED <<config, pc, ii, layout, window, r, row, out, failure, pp>>

\* quantile.Known(0.50, tolerance) and one Known(pct/100, tolerance) per pct
Estimates(qs, tol) ==
    <<[q |-> 50, tol |-> tol]>> \o [i \in 1..Len(qs) |-> [q |-> qs[i], tol |-> tol]]

(* benchmarkOneFunc up to its loop: the estimator and the timer *)
StartTimer ==
    /\ pc = "warmup"
    /\ warmed >= WarmUpRuns(warmUps)
    /\ estimates' = Estimates(quantiles, tolerance)
    /\ added' = << >>
    /\ totalTime' = 0
    /\ count' = 0
    /\ now' = 0
    /\ start' = 0
    /\ fired' = FALSE
    /\ firedAt' = -1
    /\ lateCalls' = 0
    /\ calls' = << >>
    /\ r' = NoResult
    /\ row' = NoResult
    /\ pc' = "select"
    /\ UNCHANGED <<config, ii, warmed, layout, out, trace, failure, pp>>

\* The timer has expired: d has passed since time.NewTimer(d)
Expired == now >= duration

(* Time passes between time.NewTimer(duration) and the first select of the *)
(* loop.  A delay shorter than the duration changes no outcome of a select *)
(* and is left out: the step is the one that outlasts a short duration.    *)
Delay ==
    /\ pc = "select"
    /\ count = 0
    /\ now = 0
    /\ ~fired
    /\ 0 < duration /\ duration <= MaxStartupDelay
    /\ now' = duration
    /\ UNCHANGED <<config, pc, ii, warmed, layout, estimates, added, totalTime,
                   count, start, fired, firedAt, lateCalls, calls, r, row, out,
                   trace, failure, pp>>

(* The runtime sends on timer.C, at some moment after at least duration *)
TimerFire ==
    /\ pc \in {"select", "call"}
    /\ ~fired
    /\ Expired
    /\ fired' = TRUE
    /\ firedAt' = IF pc = "call" THEN MaxInt(start, duration) ELSE now
    /\ UNCHANGED <<config, pc, ii, warmed, layout, estimates, added, totalTime,
                   count, now, start, lateCalls, calls, r, row, out, trace,
                   failure, pp>>

\* A faulty variant of DeadlineSeen that never takes the timer's case.
DeadlineNeverSeen == FALSE

\* select: case <-timer.C is ready
DeadlineSeen == fired

(* select { case <-timer.C: break collection } *)
SelectDeadline ==
    /\ pc = "select"
    /\ DeadlineSeen
    /\ pc' = "result"
    /\ UNCHANGED <<config, ii, warmed, layout, window, r, row, out, trace, failure, pp>>

(* select { default: start := time.Now(); fn() ... }: the call begins *)
SelectDefault ==
    /\ pc = "select"
    /\ ~DeadlineSeen
    /\ count < MaxCalls
    /\ \E e \in ElapsedChoices :
          /\ start' = now
          /\ now' = now + e
    /\ lateCalls' = IF fired THEN lateCalls + 1 ELSE lateCalls
    /\ pc' = "call"
    /\ trace' = Append(trace, <<"timed", ii>>)
    /\ UNCHANGED <<config, ii, warmed, layout, estimates, added, totalTime,
                   count, fired, firedAt, calls, r, row, out, failure, pp>>

(* fn() returns: elapsed, estimator.Add, totalTime += elapsed, count++ *)
CallReturn ==
    /\ pc = "call"
    /\ LET elapsed == now - start
       IN /\ added' = Append(added, elapsed)
          /\ totalTime' = totalTime + elapsed
          /\ calls' = Append(calls, elapsed)
    /\ count' = count + 1
    /\ pc' = "select"
    /\ UNCHANGED <<config, ii, warmed, layout, estimates, now, start, fired,
                   firedAt, lateCalls, r, row, out, trace, failure, pp>>

\* A faulty variant of Mean that divides by one sample too many.
MeanOffByOne(total, n) == total \div (n + 1)

\* totalTime / time.Duration(count)
Mean(total, n) == total \div n

\* nanosecondsEstimate(est, q): the values est.Get can answer with.  The
\* estimator is github.com/streadway/quantile, whose code is not part of this
\* repository: its answer is left open among the values added to it.
NanosecondsEstimates(values) == Range(values)

(* benchmarkOneFunc after its loop: the result record *)
Result ==
    /\ pc = "result"
    /\ IF count = 0
       THEN /\ failure' = "integer divide by zero"
            /\ pc' = "panic"
            /\ r' = r
       ELSE /\ \E med \in NanosecondsEstimates(added) :
               \E qv \in [1..Len(quantiles) -> NanosecondsEstimates(added)] :
                  r' = [mean |-> Mean(totalTime, count), median |-> med,
                        quantiles |-> qv, count |-> count]
            /\ pc' = "row"
            /\ failure' = failure
    /\ UNCHANGED <<config, ii, warmed, layout, window, row, out, trace, pp>>

\* A faulty variant of Scaled that divides the sample count too.
ScaledWithCount(res, k) ==
    IF k > 1
    THEN [mean |-> res.mean \div k, median |-> res.median \div k,
          quantiles |-> [i \in 1..Len(res.quantiles) |-> res.quantiles[i] \div k],
          count |-> res.count \div k]
    ELSE res

\* if repeats > 1 { r.mean /= repeats; r.median /= repeats; r.quantiles[ii] /= repeats }
Scaled(res, k) ==
    IF k > 1
    THEN [mean |-> res.mean \div k, median |-> res.median \div k,
          quantiles |-> [i \in 1..Len(res.quantiles) |-> res.quantiles[i] \div k],
          count |-> res.count]
    ELSE res

(* Done's loop body after benchmarkOneFunc: scaling and the report row.  r *)
(* keeps what benchmarkOneFunc returned, row what is printed.              *)
Row ==
    /\ pc = "row"
    /\ row' = Scaled(r, innerRepeats)
    /\ out' = Append(out, [kind |-> "row",
                           first |-> Padded(fns[ii], maxLen - runeCount[ii]),
                           labels |-> << >>])
    /\ trace' = Append(trace, <<"row", ii>>)
    /\ Advance(ii + 1)
    /\ warmed' = 0
    /\ UNCHANGED <<config, layout, window, r, failure, pp>>

(* ----------------------------- PrettyPrint ---------------------------- *)

\* time.Microsecond, time.Millisecond, time.Second (nanoseconds)
Microsecond == 1000
Millisecond == 1000000
Second == 1000000000
\* seconds in time.Minute, 5*time.Minute, time.Hour, 24*time.Hour
MinuteSecs == 60
FiveMinuteSecs == 300
HourSecs == 3600
DaySecs == 86400

\* 2^j mod 5
Pow2Mod5(j) == <<1, 2, 4, 3>>[(j % 4) + 1]

RECURSIVE BinExp8(_, _)
\* the largest k >= from with 20 * 2^k <= 256 * odd: the binary exponent of
\* odd/20, plus 8
BinExp8(odd, from) ==
    IF 20 * (2 ^ (from + 1)) <= 256 * odd THEN BinExp8(odd, from + 1) ELSE from

\* float64(x)/float64(unit) when the quotient is t tenths and exactly one
\* half of a tenth, (2t+1)/20: the float64 is that value itself when 2t+1 is a
\* multiple of 5, and %.1f then rounds half to even; otherwise the float64
\* is the nearest one of 53 bits, above or below, and %.1f rounds to its side.
TieTenths(t) ==
    LET odd == 2 * t + 1
        k == ((odd % 5) * Pow2Mod5(58 - BinExp8(odd, 0))) % 5
    IN IF odd % 5 = 0
       THEN (IF t % 2 = 0 THEN t ELSE t + 1)
       ELSE (IF k \in {3, 4} THEN t + 1 ELSE t)

\* %.1f of a quotient of t tenths and rem/(2*half) of a tenth: in tenths
RoundTenths(t, rem, half) ==
    IF rem < half THEN t
    ELSE IF rem > half THEN t + 1
    ELSE TieTenths(t)

\* %.1f of float64(x)/float64(unit), in tenths (x < Second)
Tenths(x, unit) ==
    RoundTenths(x \div (unit \div 10), x % (unit \div 10), unit \div 20)

\* %.1f of float64(d)/float64(time.Second), in tenths
SecondTenths(secs, nanos) ==
    RoundTenths(secs * 10 + nanos \div (Second \div 10), nanos % (Second \div 10),
                Second \div 20)

\* the digits of t tenths with one decimal, zero-padded to width 4 when pad
Fixed1(t, pad) ==
    (IF pad /\ t < 100 THEN "0" ELSE "")
        \o ToString(t \div 10) \o "." \o ToString(t % 10)

\* %02d
Fixed02(n) == (IF n < 10 THEN "0" ELSE "") \o ToString(n)

\* A faulty variant of MinutesFormat that does not pad the seconds.
MinutesFormatUnpadded(d) ==
    ToString(d.s \div MinuteSecs) \o "m"
        \o Fixed1(SecondTenths(d.s % MinuteSecs, d.n), FALSE) \o "s"

\* fmt.Sprintf("%dm%04.1fs", minutes, seconds)
MinutesFormat(d) ==
    ToString(d.s \div MinuteSecs) \o "m"
        \o Fixed1(SecondTenths(d.s % MinuteSecs, d.n), TRUE) \o "s"

\* fmt.Sprintf("%dh%02dm%02ds", hours, minutes, seconds)
HoursFormat(secs) ==
    ToString(secs \div HourSecs) \o "h"
        \o Fixed02((secs % HourSecs) \div MinuteSecs) \o "m"
        \o Fixed02((secs % HourSecs) % MinuteSecs) \o "s"

\* PrettyPrint(d), the micro sign written u
PrettyPrint(d) ==
    IF d.s = 0 /\ d.n < Microsecond THEN ToString(d.n) \o "ns"
    ELSE IF d.s = 0 /\ d.n < Millisecond
        THEN Fixed1(Tenths(d.n, Microsecond), FALSE) \o "us"
    ELSE IF d.s = 0
        THEN Fixed1(Tenths(d.n, Millisecond), FALSE) \o "ms"
    ELSE IF d.s < FiveMinuteSecs
        THEN Fixed1(SecondTenths(d.s, d.n), FALSE) \o "s"
    ELSE IF d.s < HourSecs THEN MinutesFormat(d)
    ELSE IF d.s < DaySecs THEN HoursFormat(d.s)
    ELSE ToString(d.s \div DaySecs) \o "d " \o HoursFormat(d.s % DaySecs)

\* The durations PrettyPrint is called with.
PPSeconds == {0, 1, 9, 180, 299, 300, 307, 3599, 3600, 11107, 86399, 86400,
              8651107}
PPNanos == {0, 1, 123, 999, 1000, 1250, 1270, 1350, 1750, 999949, 999950,
            999999, 1000000, 1230000, 1250000, 49999999, 50000000, 200000000,
            280000000, 949999999, 950000000, 999949999, 999950000, 999999999}
PPInputs == {Dur(s, n) : s \in PPSeconds, n \in PPNanos}

InitPP ==
    /\ New(<< >>)
    /\ ppIn \in PPInputs
    /\ ppOut = ""

(* One call of PrettyPrint *)
Format ==
    /\ ppOut = ""
    /\ ppOut' = PrettyPrint(ppIn)
    /\ UNCHANGED <<config, pc, ii, warmed, layout, window, r, row, out, trace,
                   failure, ppIn>>

NextPP == Format

SpecPP == InitPP /\ [][NextPP]_vars

Next ==
    \/ WithQuantiles
    \/ WithWarmUps
    \/ WithInnerRepeats
    \/ WithDuration
    \/ WithTolerance
    \/ DoneHeader
    \/ WarmUp
    \/ StartTimer
    \/ Delay
    \/ TimerFire
    \/ SelectDeadline
    \/ SelectDefault
    \/ CallReturn
    \/ Result
    \/ Row

Spec == Init /\ [][Next]_vars

(* ------------------------------- claims ------------------------------- *)

\* The positions of trace holding event e
Positions(e) == {k \in 1..Len(trace) : trace[k] = e}

\* The timed invocations started for fns[i]
TimedEvents(i) == Cardinality(Positions(<<"timed", i>>))

\* The elapsed time of the window's last timed call, 0 when there is none
LastElapsed == IF calls = << >> THEN 0 ELSE calls[Len(calls)]

\* Some benchmarked function has been invoked (warm-up or timed)
Invoked == \E k \in 1..Len(trace) : trace[k][1] \in {"warmup", "timed"}

\* The configuration the specification calls well-formed
ValidConfig ==
    /\ duration >= 0
    /\ warmUps >= 0
    /\ innerRepeats >= 1
    /\ \A i \in 1..Len(quantiles) : 0 < quantiles[i] /\ quantiles[i] < 100
    /\ 0 < tolerance /\ tolerance < 1000

\* C1: a collection window that records zero samples ends the run of that
\* function with an explicit degenerate-run error: Done never divides by
\* zero and never produces a result record from zero samples.  (Stated for
\* the well-formed configurations, a duration of zero among them.)
C1_ZeroSampleGuard ==
    ValidConfig =>
        /\ failure # "integer divide by zero"
        /\ (pc \in {"result", "row", "panic"} /\ count = 0) => r = NoResult

\* C2: a malformed configuration (negative duration, negative warm-up count,
\* non-positive inner-repeat multiplier, a quantile or tolerance outside
\* (0,1)) is rejected before any warm-up or timed invocation of any function.
C2_MalformedRejected == ~ValidConfig => ~Invoked

\* C4: for a window that recorded count >= 1 samples, the mean of the result
\* record is sum(elapsed)/count over exactly the timed invocations of the
\* window, and count is the number of those invocations and the number of
\* values added to the estimator.
C4_MeanIsSumOverCount ==
    pc = "row" =>
        /\ r.count = TimedEvents(ii)
        /\ r.count = Len(added)
        /\ added = calls
        /\ r.count >= 1
        /\ r.mean = SumSeq(calls) \div TimedEvents(ii)

\* C4 witness: a result over three calls whose mean is a truncated quotient
C4_Witness ==
    /\ pc = "row"
    /\ calls = <<1, 3, 3>>
    /\ r.mean = 2

\* C5: with inner-repeat multiplier k > 1 the printed mean, median and every
\* quantile are the values benchmarkOneFunc returned divided by k, the printed
\* sample count is left as it is; with multiplier 1 nothing is scaled.
C5_InnerRepeatScaling ==
    row # NoResult =>
        /\ row.count = r.count
        /\ Len(row.quantiles) = Len(r.quantiles)
        /\ innerRepeats > 1 =>
              /\ row.mean = r.mean \div innerRepeats
              /\ row.median = r.median \div innerRepeats
              /\ \A i \in 1..Len(r.quantiles) :
                    row.quantiles[i] = r.quantiles[i] \div innerRepeats
        /\ innerRepeats = 1 =>
              /\ row.mean = r.mean
              /\ row.median = r.median
              /\ row.quantiles = r.quantiles

\* C5 witness: a row scaled by 3 next to the unscaled record it came from
C5_Witness ==
    /\ row # NoResult
    /\ innerRepeats = 3
    /\ r.mean = 3 /\ row.mean = 1
    /\ r.median = 3 /\ row.median = 1
    /\ Len(r.quantiles) = 2
    /\ r.count = 2 /\ row.count = 2

\* No timed call is started after the timer of its window fired
NoCallAfterFire == lateCalls = 0

\* The loop exits only at a check that finds the timer fired, not before the
\* configured duration has passed, with every started call completed
ExitsAtFiredCheck ==
    pc = "result" =>
        /\ fired
        /\ now >= duration
        /\ count = TimedEvents(ii)
        /\ Len(calls) = count

\* C6 (as stated): the loop exits only at a deadline check that finds the
\* timer fired, the function is run for at least the configured duration, no
\* timed call starts once the deadline has fired, and the window overruns the
\* configured duration by at most one function call's duration.  (Stated for
\* the well-formed configurations with a positive duration.)
C6_OverrunAtMostOneCall ==
    (ValidConfig /\ duration > 0) =>
        /\ ExitsAtFiredCheck
        /\ NoCallAfterFire
        /\ pc = "result" => now - duration <= LastElapsed

\* C6 (amended): the loop exits only at a deadline check that finds the timer
\* fired, the function is run for at least the configured duration, no timed
\* call starts once the timer has fired, and the window ends at most one
\* function call's duration after the timer fired (the timer fires at or
\* after the configured duration, not necessarily at it).
C6_OverrunAtMostOneCallAfterFire ==
    /\ ExitsAtFiredCheck
    /\ NoCallAfterFire
    /\ pc = "result" => (firedAt >= duration /\ now - firedAt <= LastElapsed)

\* C6 witness: the timer fired during the second call of a window, which
\* completed before the loop exited
C6_Witness ==
    /\ pc = "result"
    /\ calls = <<3, 3>>
    /\ duration = 4
    /\ firedAt = 4
    /\ now = 6

\* The width of the first column: the largest rune count among the header
\* label and the names
ColumnWidth ==
    LET widths == {Len(HeaderLabel)} \cup {Len(fns[i]) : i \in 1..Len(fns)}
    IN CHOOSE m \in widths : \A w \in widths : m >= w

\* C8: the first cell of the header and of every row has the same width in
\* runes, the maximum of the rune count of "Benchmarks:" and of all names.
C8_ColumnAlignment ==
    \A k \in 1..Len(out) : Len(out[k].first) = ColumnWidth

\* C8 witness: header and two rows printed, for names of 12 two-byte runes
\* and of 3 one-byte runes
C8_Witness ==
    /\ pc = "done"
    /\ Len(out) = 3
    /\ ByteLen(fns[1]) = 24
    /\ Len(out[3].first) = 12

\* The events of kind k of fns[i]
Events(k, i) == Positions(<<k, i>>)

\* Every position of a is before every position of b
Before(a, b) == \A x \in a : \A y \in b : x < y

\* C9: Done is sequential in the order given: the header is emitted once,
\* before any function is invoked; for each function in list order come
\* warmUps warm-up calls, then its timed calls, then its row; nothing of the
\* next function happens before the row of the one before, and no row is
\* emitted while a window is collecting.
C9_DoneIsSequential ==
    /\ trace # << >> => trace[1] = <<"header", 0>>
    /\ \A k \in 2..Len(trace) :
          /\ trace[k][1] \in {"warmup", "timed", "row"}
          /\ trace[k][2] \in 1..Len(fns)
    /\ \A i \in 1..Len(fns) :
          LET w == Events("warmup", i)
              t == Events("timed", i)
              p == Events("row", i)
          IN /\ Before(w, t) /\ Before(t, p) /\ Before(w, p)
             /\ Cardinality(p) <= 1
             /\ t \cup p # {} =>
                   Cardinality(w) = (IF warmUps > 0 THEN warmUps ELSE 0)
             /\ (i > 1 /\ w \cup t \cup p # {}) =>
                   /\ Events("row", i - 1) # {}
                   /\ Before(Events("row", i - 1), w \cup t \cup p)
    /\ pc \in {"warmup", "select", "call", "result", "row", "panic"} =>
          Events("row", ii) = {}
    /\ Len(out) = Cardinality({k \in 1..Len(trace) : trace[k][1] \in {"header", "row"}})
    /\ \A k \in 1..Len(out) : out[k].kind = (IF k = 1 THEN "header" ELSE "row")

\* C9 witness: Done returned after two functions with two warm-up calls each
C9_Witness ==
    /\ pc = "done"
    /\ Len(fns) = 2
    /\ warmUps = 2
    /\ Positions(<<"row", 1>>) # {}
    /\ Positions(<<"row", 2>>) # {}
    /\ TimedEvents(2) = 2

\* C10: the estimator of each function is given the median 0.50 and every
\* requested quantile pct/100 at the configured tolerance, and every q of
\* that set is distinct.  (Stated for the well-formed configurations.)
C10_DistinctQuantiles ==
    (ValidConfig /\ pc \in {"select", "call", "result", "row"}) =>
        /\ Len(estimates) = Len(quantiles) + 1
        /\ estimates[1] = [q |-> 50, tol |-> tolerance]
        /\ \A i \in 1..Len(quantiles) :
              estimates[i + 1] = [q |-> quantiles[i], tol |-> tolerance]
        /\ \A i \in 1..Len(estimates) : \A j \in 1..Len(estimates) :
              i # j => estimates[i].q # estimates[j].q

\* The one-decimal strings of the tenths nearest to base + rem/(2*half)
\* tenths, either neighbour at a tie
NearestDecimals(base, rem, half, pad) ==
    {(IF pad /\ t < 100 THEN "0" ELSE "")
        \o ToString(t \div 10) \o "." \o ToString(t % 10) :
        t \in {u \in {base, base + 1} : IF u = base THEN rem <= half ELSE rem >= half}}

\* n as two digits
TwoDigits(n) == IF n < 10 THEN "0" \o ToString(n) ELSE ToString(n)

\* The literal cases of TestPrettyPrint
LiteralCases ==
    /\ ppIn = Dur(0, 123) => ppOut = "123ns"
    /\ ppIn = Dur(0, 1270) => ppOut = "1.3us"
    /\ ppIn = Dur(0, 1230000) => ppOut = "1.2ms"
    /\ ppIn = Dur(180, 280000000) => ppOut = "180.3s"
    /\ ppIn = Dur(307, 200000000) => ppOut = "5m07.2s"
    /\ ppIn = Dur(11107, 200000000) => ppOut = "3h05m07s"
    /\ ppIn = Dur(8651107, 200000000) => ppOut = "100d 3h05m07s"

DoneStep ==
    \/ DoneHeader
    \/ WarmUp
    \/ StartTimer
    \/ Delay
    \/ TimerFire
    \/ SelectDeadline
    \/ SelectDefault
    \/ CallReturn
    \/ Result
    \/ Row

\* The window has started all the calls the model gives it, its timer not
\* yet expired: the model goes no further, the program would
Capped == pc = "select" /\ count >= MaxCalls /\ ~Expired

\* C11: with a positive configured duration, every call returning and the
\* timer firing once expired, Done never stops short of returning (each
\* state of a run that has not returned has a next step), it has emitted
\* exactly one row for every named function when it returns, and a collection
\* window is left only with the deadline's firing seen.  (Stated for the
\* well-formed configurations.)
C11_TerminatesWithRows ==
    (ValidConfig /\ duration > 0) =>
        /\ (pc \notin {"config", "done"} /\ ~Capped) => ENABLED DoneStep
        /\ pc = "done" =>
              \A i \in 1..Len(fns) : Cardinality(Events("row", i)) = 1
        /\ pc \in {"result", "row", "panic"} => fired

(* -------------------- C12: rounding at a breakpoint ------------------- *)

\* C12: rounding to one decimal never makes PrettyPrint print a field that
\* reaches the next unit's breakpoint: no "1000.0us" for a duration below
\* one millisecond, no "1000.0ms" for a duration below one second, and no
\* seconds field "60.0" in the minutes format of a duration from five
\* minutes up to one hour.
C12_FieldBelowNextUnit ==
    ppOut # "" =>
        /\ (ppIn.s = 0 /\ ppIn.n < Millisecond) => ppOut # "1000.0us"
        /\ ppIn.s = 0 => ppOut # "1000.0ms"
        /\ (FiveMinuteSecs <= ppIn.s /\ ppIn.s < HourSecs) =>
              \A m \in 0..(MinuteSecs - 1) : ppOut # ToString(m) \o "m60.0s"


=============================================================================
